---- MODULE Spec2Model ----
(***************************************************************************)
(* Model of qsa.rtxi.Experiment (src/qsa/rtxi.py): an RTXI experiment      *)
(* loaded from a JSON record and queried through version, count(),         *)
(* get_measurement(index) and average(indices).                            *)
(*                                                                         *)
(* Numbers of the record are binary floating-point values.  A float is     *)
(* modelled as an integer count of units of 2^-FracBits that has at most   *)
(* Prec significant bits; every arithmetic result is rounded to the        *)
(* nearest such value, ties to even, as IEEE-754 binary64 does with 53     *)
(* bits.  An ndarray is a record [dim, data]: dim = 1 for a one-           *)
(* dimensional array, dim = 0 for a Python scalar.                         *)
(*                                                                         *)
(* The records drawn in Init have segments of one common length (a record  *)
(* of one experiment with fixed sampling); their trace_count field is NOT  *)
(* tied to the length of their traces array, since the constructor never   *)
(* compares the two.                                                       *)
(***************************************************************************)
EXTENDS Integers, Sequences, FiniteSets, TLC

VARIABLES record,            \* the JSON record j read by the constructor
          version, dt, duration, frequencies, amplitudes, phases,
          rest_level, step_level, step_delay, drop_delay,
          trace_count, trace_pause, trace_alternance,
          traces,             \* self.__traces
          call,               \* the call whose result the caller holds, or NoCall
          outcome             \* what that call returned or raised

store == <<version, dt, duration, frequencies, amplitudes, phases,
           rest_level, step_level, step_delay, drop_delay,
           trace_count, trace_pause, trace_alternance, traces>>

vars == <<record, store, call, outcome>>

---------------------------------------------------------------------------
(* Bounds of the model *)

MaxTraces == 2
MaxIndices == 3
Prec == 3
FracBits == 8

---------------------------------------------------------------------------
(* Floating-point arithmetic *)

Abs(a) == IF a < 0 THEN 0 - a ELSE a

\* Largest e >= from with 2^e * den <= num (num >= den > 0).
RECURSIVE ILog2(_, _, _)
ILog2(num, den, from) ==
  IF (2 ^ (from + 1)) * den <= num THEN ILog2(num, den, from + 1) ELSE from

\* num / den (num >= 0, den > 0) rounded to Prec significant bits, ties to even;
\* below 2^(Prec-1) units the spacing stays one unit (gradual underflow).
RoundPos(num, den) ==
  IF num = 0 THEN 0
  ELSE LET e == IF num < den THEN 0 ELSE ILog2(num, den, 0)
           g == IF e >= Prec - 1 THEN 2 ^ (e - Prec + 1) ELSE 1
           k == num \div (den * g)
           r == num - k * den * g
           up == \/ 2 * r > den * g
                 \/ 2 * r = den * g /\ k % 2 = 1
       IN  (IF up THEN k + 1 ELSE k) * g

RoundF(num, den) ==
  IF num < 0 THEN 0 - RoundPos(0 - num, den) ELSE RoundPos(num, den)

\* a / n and a + b on floats
FDiv(a, n) == RoundF(a, n)
FAdd(a, b) == RoundF(a + b, 1)

\* The float holding the small integer v of the record.
FromInt(v) == v * (2 ^ FracBits)

---------------------------------------------------------------------------
(* numpy arrays *)

\* numpy.array(list)
NdArray(list) == [dim |-> 1, data |-> list]

\* The Python scalar 0 that t, x and y start from.
Zero == [dim |-> 0, data |-> <<0>>]

\* a / n, elementwise
NdDiv(a, n) == [dim |-> a.dim, data |-> [k \in DOMAIN a.data |-> FDiv(a.data[k], n)]]

\* a + b, elementwise; a scalar is broadcast over the array
NdAdd(a, b) ==
  IF a.dim = 0 /\ b.dim = 0
    THEN [dim |-> 0, data |-> <<FAdd(a.data[1], b.data[1])>>]
  ELSE IF a.dim = 0
    THEN [dim |-> 1, data |-> [k \in DOMAIN b.data |-> FAdd(a.data[1], b.data[k])]]
  ELSE IF b.dim = 0
    THEN [dim |-> 1, data |-> [k \in DOMAIN a.data |-> FAdd(a.data[k], b.data[1])]]
  ELSE [dim |-> 1, data |-> [k \in DOMAIN a.data |-> FAdd(a.data[k], b.data[k])]]

---------------------------------------------------------------------------
(* Results of a call *)

Return(v) == [kind |-> "return", value |-> v]

\* raise exc(...); args holds the numbers formatted into the message
Raise(exc, args) == [kind |-> "raise", exc |-> exc, args |-> args]

\* qsa.measurement.Measurement(dt, duration, frequencies, t, x, y)
Measurement(m_dt, m_duration, m_frequencies, t, x, y) ==
  [dt |-> m_dt, duration |-> m_duration, frequencies |-> m_frequencies,
   t |-> t, x |-> x, y |-> y]

\* No call is in progress: the object is constructed and waits for its caller.
NoCall == [op |-> "none", index |-> 0, indices |-> <<>>]

---------------------------------------------------------------------------
(* The records the constructor is given *)

JList(s) == [k \in DOMAIN s |-> FromInt(s[k])]

JSegment(time, stimulation, response) ==
  [time |-> JList(time), stimulation |-> JList(stimulation),
   response |-> JList(response)]

MultisineSamples ==
  { JSegment(<<0, 1, 2>>, <<4, 6, 4>>, <<1, 2, 3>>),
    JSegment(<<0, 1, 2>>, <<4, 6, 4>>, <<3, 4, 5>>),
    JSegment(<<0, 2, 4>>, <<-2, 1, 3>>, <<-1, 1, 4>>) }

StepSample == JSegment(<<7, 7, 7>>, <<6, 6, 6>>, <<5, 5, 5>>)

DropSample == JSegment(<<6, 5, 4>>, <<7, 0, 7>>, <<0, 0, 1>>)

JTraces ==
  { [step |-> StepSample, multisine |-> s, drop |-> DropSample] :
      s \in MultisineSamples }

SeqsUpTo(S, n) == UNION { [1..k -> S] : k \in 0..n }

Records ==
  [ version : {"1.0"},
    dt : {FromInt(1)},
    duration : {FromInt(3)},
    frequencies : {JList(<<2, 5>>)},
    amplitudes : {JList(<<1, 3>>)},
    phases : {JList(<<0, 4>>)},
    rest_level : {FromInt(0)},
    step_level : {FromInt(6)},
    step_delay : {FromInt(2)},
    drop_delay : {FromInt(4)},
    trace_count : 0..MaxTraces,
    trace_pause : {FromInt(5)},
    trace_alternance : {-1, 0, 1},
    traces : SeqsUpTo(JTraces, MaxTraces) ]

---------------------------------------------------------------------------
(* Experiment.__init__ *)

InitSegment(js) ==
  [time |-> NdArray(js.time), stimulation |-> NdArray(js.stimulation),
   response |-> NdArray(js.response)]

InitTraces(j) ==
  [i \in 1..Len(j.traces) |->
     [step |-> InitSegment(j.traces[i].step),
      multisine |-> InitSegment(j.traces[i].multisine),
      drop |-> InitSegment(j.traces[i].drop)]]

Init ==
  /\ record \in Records
  /\ version = record.version
  /\ dt = record.dt
  /\ duration = record.duration
  /\ frequencies = NdArray(record.frequencies)
  /\ amplitudes = NdArray(record.amplitudes)
  /\ phases = NdArray(record.phases)
  /\ rest_level = record.rest_level
  /\ step_level = record.step_level
  /\ step_delay = record.step_delay
  /\ drop_delay = record.drop_delay
  /\ trace_count = record.trace_count
  /\ trace_pause = record.trace_pause
  /\ trace_alternance = record.trace_alternance
  /\ traces = InitTraces(record)
  /\ call = NoCall
  /\ outcome = Return("none")

---------------------------------------------------------------------------
(* Experiment.count *)

\* Variant: the count read from the trace_count metadata.
count_from_metadata == trace_count

count == Len(traces)

---------------------------------------------------------------------------
(* Experiment.get_measurement *)

\* Variant: only the upper end is checked.
index_invalid_upper(index) == index >= Len(traces)

\* index < 0 or index >= len(self.__traces)
index_invalid(index) == index < 0 \/ index >= Len(traces)

\* Python's list[index]: a negative index counts from the end of the list.
PyInRange(list, index) == 0 - Len(list) <= index /\ index < Len(list)
PyItem(list, index) ==
  IF index < 0 THEN list[Len(list) + index + 1] ELSE list[index + 1]

\* Variant: the Measurement is built from the step segment.
measured_segment_step(trace) == trace.step

\* The segment of a trace a Measurement is built from.
measured_segment(trace) == trace.multisine

get_measurement(index) ==
  IF index_invalid(index) THEN Raise("IndexError", <<index>>)
  ELSE IF ~PyInRange(traces, index) THEN Raise("IndexError", <<>>)
  ELSE LET seg == measured_segment(PyItem(traces, index))
       IN  Return(Measurement(dt, duration, frequencies,
                              seg.time, seg.stimulation, seg.response))

---------------------------------------------------------------------------
(* Experiment.average *)

\* Variant: the term is scaled by n + 1.
accumulate_plus_one(acc, a, n) == NdAdd(acc, NdDiv(a, n + 1))

\* Variant: the sum so far is divided along with the new term.
accumulate_running(acc, a, n) == NdDiv(NdAdd(acc, a), n)

\* acc + a / n
accumulate(acc, a, n) == NdAdd(acc, NdDiv(a, n))

\* Variant: y accumulates the stimulation instead of the response.
average_step_crossed(acc, m, n) ==
  [t |-> NdAdd(acc.t, NdDiv(m.t, n)),
   x |-> NdAdd(acc.x, NdDiv(m.x, n)),
   y |-> NdAdd(acc.y, NdDiv(m.x, n))]

\* One pass of the loop body over the measurement m.
average_step(acc, m, n) ==
  [t |-> accumulate(acc.t, m.t, n),
   x |-> accumulate(acc.x, m.x, n),
   y |-> accumulate(acc.y, m.y, n)]

\* for i in range(i, n): ... ; acc is (t, x, y) so far
RECURSIVE average_loop(_, _, _, _)
average_loop(indices, n, i, acc) ==
  IF i >= n THEN [kind |-> "done", acc |-> acc]
  ELSE LET index == indices[i + 1]
       IN  IF index < 0 \/ index >= Len(traces)
             THEN Raise("IndexError", <<index>>)
           ELSE LET r == get_measurement(index)
                IN  IF r.kind = "raise" THEN r
                    ELSE average_loop(indices, n, i + 1,
                                      average_step(acc, r.value, n))

StartAcc == [t |-> Zero, x |-> Zero, y |-> Zero]

Reversed(list) == [p \in DOMAIN list |-> list[Len(list) + 1 - p]]

\* Variant: the alternance is tested after the loop.
average_alternance_last(indices) ==
  LET r == average_loop(indices, Len(indices), 0, StartAcc)
  IN  IF r.kind = "raise" THEN r
      ELSE IF trace_alternance < 0 THEN Raise("NotImplementedError", <<>>)
      ELSE Return(Measurement(dt, duration, frequencies,
                              r.acc.t, r.acc.x, r.acc.y))

\* Variant: the list is walked from its last entry to its first.
average_reversed(indices) ==
  IF trace_alternance < 0 THEN Raise("NotImplementedError", <<>>)
  ELSE LET r == average_loop(Reversed(indices), Len(indices), 0, StartAcc)
       IN  IF r.kind = "raise" THEN r
           ELSE Return(Measurement(dt, duration, frequencies,
                                   r.acc.t, r.acc.x, r.acc.y))

\* Variant: 1 / n is computed once before the loop.
average_inverse_first(indices) ==
  IF trace_alternance < 0 THEN Raise("NotImplementedError", <<>>)
  ELSE IF Len(indices) = 0 THEN Raise("ZeroDivisionError", <<>>)
  ELSE LET r == average_loop(indices, Len(indices), 0, StartAcc)
       IN  IF r.kind = "raise" THEN r
           ELSE Return(Measurement(dt, duration, frequencies,
                                   r.acc.t, r.acc.x, r.acc.y))

average(indices) ==
  IF trace_alternance < 0 THEN Raise("NotImplementedError", <<>>)
  ELSE LET r == average_loop(indices, Len(indices), 0, StartAcc)
       IN  IF r.kind = "raise" THEN r
           ELSE Return(Measurement(dt, duration, frequencies,
                                   r.acc.t, r.acc.x, r.acc.y))

---------------------------------------------------------------------------
(* Calls: the caller makes one call at a time (single-threaded, synchronous) *)

\* The indices a caller may pass: every valid one and one beyond each end.
Indexes == -1 .. Len(traces)
IndexLists == SeqsUpTo(Indexes, MaxIndices)

Version ==
  /\ call = NoCall
  /\ call' = [op |-> "version", index |-> 0, indices |-> <<>>]
  /\ outcome' = Return(version)
  /\ UNCHANGED <<record, store>>

Count ==
  /\ call = NoCall
  /\ call' = [op |-> "count", index |-> 0, indices |-> <<>>]
  /\ outcome' = Return(count)
  /\ UNCHANGED <<record, store>>

GetMeasurement ==
  /\ call = NoCall
  /\ \E index \in Indexes :
       /\ call' = [op |-> "get_measurement", index |-> index, indices |-> <<>>]
       /\ outcome' = get_measurement(index)
  /\ UNCHANGED <<record, store>>

\* Variant: t starts as the first measurement's own array and is updated in
\* place, so the sums land in the store.
AverageInPlace ==
  /\ call = NoCall
  /\ \E indices \in IndexLists :
       LET r == average(indices)
       IN  /\ call' = [op |-> "average", index |-> 0, indices |-> indices]
           /\ outcome' = r
           /\ traces' = IF r.kind = "return" /\ indices # <<>>
                          THEN [traces EXCEPT
                                  ![indices[1] + 1].multisine.time = r.value.t]
                          ELSE traces
  /\ UNCHANGED <<record, version, dt, duration, frequencies, amplitudes,
                 phases, rest_level, step_level, step_delay, drop_delay,
                 trace_count, trace_pause, trace_alternance>>

Average ==
  /\ call = NoCall
  /\ \E indices \in IndexLists :
       /\ call' = [op |-> "average", index |-> 0, indices |-> indices]
       /\ outcome' = average(indices)
  /\ UNCHANGED <<record, store>>

\* The caller takes the result and is free to make its next call.
Resume ==
  /\ call # NoCall
  /\ call' = NoCall
  /\ outcome' = Return("none")
  /\ UNCHANGED <<record, store>>

Next == Version \/ Count \/ GetMeasurement \/ Average \/ Resume

Spec == Init /\ [][Next]_vars

\* What the call c yields on the object as it is now.
Eval(c) ==
  CASE c.op = "none" -> Return("none")
    [] c.op = "version" -> Return(version)
    [] c.op = "count" -> Return(count)
    [] c.op = "get_measurement" -> get_measurement(c.index)
    [] c.op = "average" -> average(c.indices)

---------------------------------------------------------------------------
(* Vocabulary of the properties, read off the record the object was built from *)

Valid(index) == 0 <= index /\ index < count
AllValid(indices) == \A p \in DOMAIN indices : Valid(indices[p])

\* The Measurement of trace i as the record describes it.
RecordMeasurement(i) ==
  [dt |-> record.dt, duration |-> record.duration,
   frequencies |-> [dim |-> 1, data |-> record.frequencies],
   t |-> [dim |-> 1, data |-> record.traces[i + 1].multisine.time],
   x |-> [dim |-> 1, data |-> record.traces[i + 1].multisine.stimulation],
   y |-> [dim |-> 1, data |-> record.traces[i + 1].multisine.response]]

\* Sample k of the named array of the multisine segment of trace i.
Sample(field, i, k) ==
  CASE field = "t" -> record.traces[i + 1].multisine.time[k]
    [] field = "x" -> record.traces[i + 1].multisine.stimulation[k]
    [] field = "y" -> record.traces[i + 1].multisine.response[k]

SegmentLen(i) == Len(record.traces[i + 1].multisine.time)

\* Exact sums, over the entries of indices, of sample k and of its magnitude.
RECURSIVE SumSamples(_, _, _, _)
SumSamples(field, indices, k, upto) ==
  IF upto = 0 THEN 0
  ELSE SumSamples(field, indices, k, upto - 1) + Sample(field, indices[upto], k)

RECURSIVE SumMagnitudes(_, _, _, _)
SumMagnitudes(field, indices, k, upto) ==
  IF upto = 0 THEN 0
  ELSE SumMagnitudes(field, indices, k, upto - 1)
         + Abs(Sample(field, indices[upto], k))

Field(m, field) ==
  CASE field = "t" -> m.t [] field = "x" -> m.x [] field = "y" -> m.y

Fields == {"t", "x", "y"}

IsArrayOfLen(a, len) == a.dim = 1 /\ DOMAIN a.data = 1..len

MetadataOf(m) == <<m.dt, m.duration, m.frequencies>>
RecordMetadata ==
  <<record.dt, record.duration, [dim |-> 1, data |-> record.frequencies]>>

\* The rearrangements of a list.
Occurrences(q, v) == Cardinality({p \in DOMAIN q : q[p] = v})
Rearrangements(indices) ==
  LET vals == {indices[p] : p \in DOMAIN indices}
  IN  {q \in [DOMAIN indices -> vals] :
         \A v \in vals : Occurrences(q, v) = Occurrences(indices, v)}

AveragedValid ==
  /\ call.op = "average"
  /\ trace_alternance >= 0
  /\ AllValid(call.indices)

---------------------------------------------------------------------------
(* Properties *)

\* C1: for every index i with 0 <= i < count(), get_measurement(i) returns a
\* Measurement whose t, x, y are the time, stimulation and response arrays of
\* the multisine segment of trace i, untransformed, and whose dt, duration and
\* frequencies are the experiment's metadata.
C1_GetMeasurementIsMultisine ==
  (call.op = "get_measurement" /\ Valid(call.index)) =>
    outcome = Return(RecordMeasurement(call.index))

C1_Witness ==
  /\ call.op = "get_measurement"
  /\ call.index = 1
  /\ count = 2
  /\ record.traces[1] # record.traces[2]
  /\ outcome.kind = "return"

\* C2: get_measurement(index) raises IndexError carrying the index exactly when
\* index < 0 or index >= count(); otherwise it returns a Measurement.
C2_GetMeasurementRange ==
  call.op = "get_measurement" =>
    IF call.index < 0 \/ call.index >= count
      THEN outcome = Raise("IndexError", <<call.index>>)
      ELSE outcome.kind = "return"

C2_Witness ==
  /\ call.op = "get_measurement"
  /\ call.index = -1
  /\ count >= 1
  /\ outcome = Raise("IndexError", <<-1>>)

\* C4: with a negative trace_alternance, average of any non-empty list raises
\* NotImplementedError, whether or not the list holds an out-of-range index.
C4_NegativeAlternanceFailsFirst ==
  (call.op = "average" /\ trace_alternance < 0 /\ call.indices # <<>>) =>
    outcome = Raise("NotImplementedError", <<>>)

C4_Witness ==
  /\ call.op = "average"
  /\ trace_alternance < 0
  /\ Len(call.indices) = 2
  /\ Valid(call.indices[1])
  /\ ~Valid(call.indices[2])
  /\ outcome = Raise("NotImplementedError", <<>>)

\* The first entry of the list that is out of range.
FirstInvalid(indices) ==
  LET p == CHOOSE p \in DOMAIN indices :
             /\ ~Valid(indices[p])
             /\ \A q \in 1..(p - 1) : Valid(indices[q])
  IN  indices[p]

C6_SingleAverageIsMeasurement ==
  (AveragedValid /\ Len(call.indices) = 1) =>
    outcome = get_measurement(call.indices[1])

C6_Witness ==
  /\ AveragedValid
  /\ call.indices = <<1>>
  /\ outcome = Return(RecordMeasurement(1))

\* C10: with trace_alternance >= 0, average([]) returns a Measurement whose t,
\* x and y are the scalar 0, with the experiment's dt, duration, frequencies.
C10_EmptyAverageIsScalarZero ==
  (call.op = "average" /\ trace_alternance >= 0 /\ call.indices = <<>>) =>
    /\ outcome.kind = "return"
    /\ MetadataOf(outcome.value) = RecordMetadata
    /\ \A f \in Fields : Field(outcome.value, f) = [dim |-> 0, data |-> <<0>>]

C10_Witness ==
  /\ call.op = "average"
  /\ trace_alternance >= 0
  /\ call.indices = <<>>
  /\ count >= 1
  /\ outcome.kind = "return"
  /\ outcome.value.y.dim = 0

\* C3 as stated: with trace_alternance >= 0 and a non-empty list of valid
\* indices, every sample of t, x and y of average(indices) is exactly the
\* arithmetic mean of that sample over the entries of the list.
C3_ExactMean ==
  (AveragedValid /\ call.indices # <<>>) =>
    /\ outcome.kind = "return"
    /\ \A f \in Fields :
         LET a == Field(outcome.value, f)
             n == Len(call.indices)
             len == SegmentLen(call.indices[1])
         IN  /\ IsArrayOfLen(a, len)
             /\ \A k \in 1..len :
                  n * a.data[k] = SumSamples(f, call.indices, k, n)

\* C3 amended: every sample of t, x and y of average(indices) is the mean of
\* that sample up to rounding: for n <= 2 it is the mean rounded once to the
\* nearest float, and for every n it lies within ((1 + 2^-Prec)^n - 1) times
\* the mean magnitude of the exact mean; dt, duration and frequencies are the
\* experiment's.
C3_MeanUpToRounding ==
  (AveragedValid /\ call.indices # <<>>) =>
    /\ outcome.kind = "return"
    /\ MetadataOf(outcome.value) = RecordMetadata
    /\ \A f \in Fields :
         LET a == Field(outcome.value, f)
             n == Len(call.indices)
             len == SegmentLen(call.indices[1])
         IN  /\ IsArrayOfLen(a, len)
             /\ \A k \in 1..len :
                  LET sum == SumSamples(f, call.indices, k, n)
                      mag == SumMagnitudes(f, call.indices, k, n)
                  IN  /\ n <= 2 => a.data[k] = RoundF(sum, n)
                      /\ Abs(n * a.data[k] - sum) * (2 ^ (Prec * n))
                           <= ((2 ^ Prec + 1) ^ n - 2 ^ (Prec * n)) * mag

\* Two traces with responses [1,2,3] and [3,4,5] and equal time and
\* stimulation: average([0,1]) has response [2,3,4] and the inputs' t; and a
\* list of three whose mean of some sample is not reached exactly.
C3_Witness ==
  \/ /\ AveragedValid
     /\ call.indices = <<0, 1>>
     /\ record.traces[1].multisine.response = JList(<<1, 2, 3>>)
     /\ record.traces[2].multisine.response = JList(<<3, 4, 5>>)
     /\ outcome.kind = "return"
     /\ outcome.value.y = [dim |-> 1, data |-> JList(<<2, 3, 4>>)]
     /\ outcome.value.t = [dim |-> 1, data |-> record.traces[1].multisine.time]
  \/ /\ AveragedValid
     /\ Len(call.indices) = 3
     /\ outcome.kind = "return"
     /\ \E k \in 1..SegmentLen(call.indices[1]) :
          3 * outcome.value.y.data[k] # SumSamples("y", call.indices, k, 3)

\* C7 as stated: with trace_alternance >= 0 and a list of valid indices,
\* average returns the identical result for every rearrangement of the list.
C7_OrderIndependent ==
  AveragedValid =>
    \A q \in Rearrangements(call.indices) : average(q) = outcome

\* C7 amended: the result is identical for every rearrangement of a list of
\* at most two valid indices (one addition of two scaled terms commutes).
C7_OrderIndependentUpToTwo ==
  (AveragedValid /\ Len(call.indices) <= 2) =>
    \A q \in Rearrangements(call.indices) : average(q) = outcome

C7_Witness ==
  /\ AveragedValid
  /\ call.indices = <<0, 1>>
  /\ record.traces[1] # record.traces[2]
  /\ outcome.kind = "return"
  /\ average(<<1, 0>>) = outcome

\* C8 as stated: count() is the trace_count value of the record, and the
\* indices get_measurement accepts are exactly 0..trace_count-1.
C8_CountIsTraceCount ==
  /\ call.op = "count" => outcome = Return(record.trace_count)
  /\ call.op = "get_measurement" =>
       (outcome.kind = "return" <=>
          (0 <= call.index /\ call.index < record.trace_count))

\* C8 amended: count() is the number of entries of the traces array of the
\* record, and the indices get_measurement and average accept are exactly
\* 0..that number - 1.
C8_CountIsNumberOfTraces ==
  /\ call.op = "count" => outcome = Return(Len(record.traces))
  /\ call.op = "get_measurement" =>
       (outcome.kind = "return" <=>
          (0 <= call.index /\ call.index < Len(record.traces)))
  /\ (call.op = "average" /\ trace_alternance >= 0) =>
       (outcome.kind = "return" <=>
          \A p \in DOMAIN call.indices :
            0 <= call.indices[p] /\ call.indices[p] < Len(record.traces))

C8_Witness ==
  /\ call.op = "count"
  /\ record.trace_count # Len(record.traces)
  /\ outcome = Return(2)

\* C9: no call, succeeding or failing, changes the store (metadata, number of
\* traces, every trace's step, multisine and drop arrays), and the call just
\* made yields the same outcome when repeated on the object it left behind.
C9_StoreImmutable ==
  /\ [][store' = store]_vars
  /\ [](outcome = Eval(call))

C9_Witness ==
  /\ call.op = "average"
  /\ outcome.kind = "raise"
  /\ store = <<record.version, record.dt, record.duration,
               NdArray(record.frequencies), NdArray(record.amplitudes),
               NdArray(record.phases), record.rest_level, record.step_level,
               record.step_delay, record.drop_delay, record.trace_count,
               record.trace_pause, record.trace_alternance, InitTraces(record)>>

====
